---- MODULE Spec2Model ----
(***************************************************************************)
(* ApolloVeritas: the directory reconciliation between LDAP and Google.    *)
(*                                                                         *)
(* From apolloveritas/ldap/ldap_directory.py:                              *)
(*   - the nested-group flattening, LdapDirectory.get_nested_member_users  *)
(*     with LdapDirectory.objectify_members (SpecFlatten);                 *)
(*   - the scope filter, LdapDirectory.remove_excluded_users and           *)
(*     remove_excluded_groups with their OU helpers (SpecFilter);          *)
(*   - the single-record lookups and modify (SpecCalls).                   *)
(* From apolloveritas/google/group.py and user.py:                         *)
(*   - the paged fetches get_members and get_all_users (SpecPaging);       *)
(*   - change_to_security_group and hide_from_GAL (SpecSettings);          *)
(*   - set_owner (SpecCalls).                                              *)
(* From apolloveritas/district/district.py: Grade.make_ordinal (SpecCalls). *)
(*                                                                         *)
(* Python strings that are only compared for equality (cn, sAMAccountName) *)
(* are TLA+ strings.  Strings that are searched with the `in` operator     *)
(* (organizational-unit paths) are sequences of characters.  Distinguished *)
(* names of the membership graph are pairs <<kind, number>>.               *)
(***************************************************************************)
EXTENDS Integers, Sequences, FiniteSets, TLC

VARIABLES
    groups,       \* LdapDirectory.groups: the cached (sync-safe) LdapGroup objects
    all_users,    \* LdapDirectory.all_users: the cached LdapUser objects
    members,      \* the list object handed to get_nested_member_users (the work-list)
    passed,       \* the contents of that list at the moment of the call
    pc,           \* position inside get_nested_member_users
    idx,          \* number of items the list iterator of line 501 has handed out
    expanded,     \* DNs of the groups this call has replaced by their members
    excludedOrganizationalUnits,
    excludedUsers,
    excludedGroups,
    includedOrganizationalUnits,
    includedUsers,
    includedGroups,
    arg,          \* the list passed to the scope filter
    ret,          \* the list the scope filter returned
    op,           \* which filter call produced ret
    fetcher,      \* the paged fetch that is running: get_members or get_all_users
    fetch_pc,     \* position inside the paged fetch
    nextPageToken,
    out_list,
    served,       \* the result pages the API has handed to this fetch, in order
    fetch_ret,    \* what the paged fetch returned
    settings,     \* GoogleGroup.settings of one group object
    sg_calls,     \* how many operations on the settings have been called
    sg_op,        \* the last operation called on the settings
    sg_ret,       \* its outcome: "True", "False" or "raised"
    sg_patched,   \* whether it sent groups().patch to the settings service
    call_fn,      \* the last single-step operation that was called
    call_in,      \* what it was called on
    call_out,     \* what came of it
    fill_cls,     \* the class whose constructor fills its attributes
    fill_pc,      \* position inside fill_attrs_from_dict / fill_from_dict
    fill_kind,    \* the kind of mapping self.dict is
    fill_given,   \* self.dict as the constructor received it
    fill_dict,    \* self.dict
    fill_attrs,   \* the attributes of the object
    fill_retries  \* how many times the except block has run

flattenVars == <<groups, all_users, members, passed, pc, idx, expanded>>
policyVars == <<excludedOrganizationalUnits, excludedUsers, excludedGroups,
                includedOrganizationalUnits, includedUsers, includedGroups>>
filterVars == <<policyVars, arg, ret, op>>
pagingVars == <<fetcher, fetch_pc, nextPageToken, out_list, served, fetch_ret>>
settingsVars == <<settings, sg_calls, sg_op, sg_ret, sg_patched>>
callVars == <<call_fn, call_in, call_out>>
fillVars == <<fill_cls, fill_pc, fill_kind, fill_given, fill_dict, fill_attrs,
              fill_retries>>
restVars == <<pagingVars, settingsVars, callVars, fillVars>>
vars == <<flattenVars, filterVars, restVars>>

-----------------------------------------------------------------------------
(* Bounds of the model.                                                    *)

NumGroups == 2
NumUsers == 2
MaxMembers == 2

\* The longest work-list an acyclic graph can produce: every one of at most
\* MaxMembers entries unfolds through at most NumGroups levels of nesting.
\* A cyclic graph with a user in the cycle grows the list without limit; the
\* model follows it up to this length.
MaxWorkList == MaxMembers ^ (NumGroups + 1)

MaxPathLen == 2      \* characters in an organizational-unit path
MaxPolicyLen == 1    \* entries in each of the six policy lists
MaxListLen == 2      \* objects in a list handed to the scope filter

-----------------------------------------------------------------------------
(* Generic helpers for Python lists.                                       *)

Range(s) == {s[i] : i \in 1..Len(s)}

SeqsUpTo(S, n) == UNION {[1..k -> S] : k \in 0..n}

\* Sequences without a repeated element (a multi-valued LDAP attribute holds
\* each value once).
DistinctSeqsUpTo(S, n) ==
    {s \in SeqsUpTo(S, n) : \A i, j \in 1..Len(s) : s[i] = s[j] => i = j}

\* Python `x in lst` for a list.
ListIn(x, lst) == \E i \in 1..Len(lst) : lst[i] = x

\* A removal that drops every element equal to x.
ListRemoveAll(lst, x) ==
    LET keep == {i \in 1..Len(lst) : lst[i] # x}
        F[i \in 0..Len(lst)] ==
            IF i = 0 THEN <<>>
            ELSE IF i \in keep THEN Append(F[i - 1], lst[i]) ELSE F[i - 1]
    IN  F[Len(lst)]

\* Python `lst.remove(x)`: drops the first element equal to x.
ListRemove(lst, x) ==
    LET first == CHOOSE i \in 1..Len(lst) :
                    lst[i] = x /\ \A j \in 1..(i - 1) : lst[j] # x
    IN  SubSeq(lst, 1, first - 1) \o SubSeq(lst, first + 1, Len(lst))

-----------------------------------------------------------------------------
(* The membership graph.                                                   *)

GroupDNs == {<<"CN=group", i>> : i \in 1..NumGroups}
UserDNs == {<<"CN=user", i>> : i \in 1..NumUsers}
\* A DN that no cached object carries (a deleted object, an excluded group).
StaleDN == <<"CN=stale", 0>>
DNs == GroupDNs \cup UserDNs \cup {StaleDN}

\* An LdapGroup as the flattening reads it.  has_member is FALSE when the
\* directory record has no 'member' key, which leaves LdapGroup.members None.
LdapGroups ==
    {g \in [distinguishedName : GroupDNs, has_member : BOOLEAN,
            members : DistinctSeqsUpTo(DNs, MaxMembers)] :
        ~g.has_member => g.members = <<>>}

\* Entries of the work-list are references to cached objects.
GroupObj(dn) == [type |-> "LdapGroup", distinguishedName |-> dn]
UserObj(dn) == [type |-> "LdapUser", distinguishedName |-> dn]

NoObject == [type |-> "ValueError", distinguishedName |-> StaleDN]

get_cached_group_by_dn(dn) ==
    IF \E i \in 1..Len(groups) : groups[i].distinguishedName = dn
    THEN GroupObj(dn)
    ELSE NoObject

get_cached_user_by_dn(dn) ==
    IF \E i \in 1..Len(all_users) : all_users[i].distinguishedName = dn
    THEN UserObj(dn)
    ELSE NoObject

\* The cached LdapGroup a group reference stands for (the first match, as in
\* get_cached_group_by_dn).
GroupOf(obj) ==
    groups[CHOOSE i \in 1..Len(groups) :
              /\ groups[i].distinguishedName = obj.distinguishedName
              /\ \A j \in 1..(i - 1) :
                    groups[j].distinguishedName # obj.distinguishedName]

\* Truth value of `member.members` (None and the empty list are both false).
MembersTruthy(g) == g.has_member /\ Len(g.members) > 0

\* One member DN to its object: the group cache first, then the user cache.
ResolveMember(dn) ==
    IF get_cached_group_by_dn(dn) # NoObject
    THEN get_cached_group_by_dn(dn)
    ELSE get_cached_user_by_dn(dn)

\* objectify_members with a loop that stops one DN short of the end.
objectify_members_short(member_dns) ==
    IF \E i \in 1..(Len(member_dns) - 1) : ResolveMember(member_dns[i]) = NoObject
    THEN [raised |-> TRUE, member_objects |-> <<>>]
    ELSE [raised |-> FALSE,
          member_objects |->
              [i \in 1..(Len(member_dns) - 1) |-> ResolveMember(member_dns[i])]]

\* objectify_members that looks in the user cache only and passes over the
\* DNs of groups.
objectify_members_users_only(member_dns) ==
    IF \E i \in 1..Len(member_dns) : ResolveMember(member_dns[i]) = NoObject
    THEN [raised |-> TRUE, member_objects |-> <<>>]
    ELSE LET F[i \in 0..Len(member_dns)] ==
                 IF i = 0 THEN <<>>
                 ELSE IF get_cached_user_by_dn(member_dns[i]) # NoObject
                      THEN Append(F[i - 1], get_cached_user_by_dn(member_dns[i]))
                      ELSE F[i - 1]
         IN  [raised |-> FALSE, member_objects |-> F[Len(member_dns)]]

\* objectify_members: [raised |-> TRUE] when a DN is in neither cache,
\* otherwise the objects in the order of member_dns.
objectify_members(member_dns) ==
    IF \E i \in 1..Len(member_dns) : ResolveMember(member_dns[i]) = NoObject
    THEN [raised |-> TRUE, member_objects |-> <<>>]
    ELSE [raised |-> FALSE,
          member_objects |-> [i \in 1..Len(member_dns) |-> ResolveMember(member_dns[i])]]

-----------------------------------------------------------------------------
(* get_nested_member_users, one action per step of its loops.              *)

CachedObjects ==
    {GroupObj(groups[i].distinguishedName) : i \in 1..Len(groups)}
        \cup {UserObj(all_users[i].distinguishedName) : i \in 1..Len(all_users)}

\* The call: members is a list of cached objects, such as the objectified
\* direct members of a group.
Call(ms) ==
    /\ pc = "idle"
    /\ members' = ms
    /\ passed' = ms
    /\ pc' = "while"
    /\ idx' = 0
    /\ expanded' = {}
    /\ UNCHANGED <<groups, all_users, filterVars, restVars>>

\* A scan that looks at the first entry of the list only.
WhileCheckFirstEntry ==
    /\ pc = "while"
    /\ IF Len(members) > 0 /\ members[1].type = "LdapGroup"
       THEN pc' = "for" /\ idx' = 0
       ELSE pc' = "done" /\ idx' = idx
    /\ UNCHANGED <<groups, all_users, members, passed, expanded, filterVars, restVars>>

\* Lines 493-500: the scan for a group and the return.
WhileCheck ==
    /\ pc = "while"
    /\ IF \E i \in 1..Len(members) : members[i].type = "LdapGroup"
       THEN pc' = "for" /\ idx' = 0
       ELSE pc' = "done" /\ idx' = idx
    /\ UNCHANGED <<groups, all_users, members, passed, expanded, filterVars, restVars>>

\* The for loop without the else branch of lines 508-509: a group without
\* members stays in the list.
ForStepNoElse ==
    /\ pc = "for"
    /\ IF idx >= Len(members)
       THEN /\ pc' = "while"
            /\ UNCHANGED <<members, idx, expanded>>
       ELSE LET member == members[idx + 1]
            IN  IF member.type # "LdapGroup" \/ ~MembersTruthy(GroupOf(member))
                THEN /\ idx' = idx + 1
                     /\ UNCHANGED <<members, pc, expanded>>
                ELSE LET nested == objectify_members(GroupOf(member).members)
                     IN  IF nested.raised
                         THEN /\ pc' = "raised"
                              /\ UNCHANGED <<members, idx, expanded>>
                         ELSE /\ Len(members) - 1 + Len(nested.member_objects)
                                    <= MaxWorkList
                              /\ members' = ListRemove(members, member)
                                                \o nested.member_objects
                              /\ idx' = idx + 1
                              /\ pc' = pc
                              /\ expanded' =
                                    expanded \cup {member.distinguishedName}
    /\ UNCHANGED <<groups, all_users, passed, filterVars, restVars>>

\* Lines 501-509: one round of `for member in members`, on the list that the
\* body changes.  The iterator hands out members[idx] (0-based) while idx is
\* inside the list as it is now.
ForStep ==
    /\ pc = "for"
    /\ IF idx >= Len(members)
       THEN /\ pc' = "while"
            /\ UNCHANGED <<members, idx, expanded>>
       ELSE LET member == members[idx + 1]
            IN  IF member.type # "LdapGroup"
                THEN /\ idx' = idx + 1
                     /\ UNCHANGED <<members, pc, expanded>>
                ELSE IF MembersTruthy(GroupOf(member))
                THEN LET nested == objectify_members(GroupOf(member).members)
                     IN  IF nested.raised
                         THEN /\ pc' = "raised"
                              /\ UNCHANGED <<members, idx, expanded>>
                         ELSE /\ Len(members) - 1 + Len(nested.member_objects)
                                    <= MaxWorkList
                              /\ members' = ListRemove(members, member)
                                                \o nested.member_objects
                              /\ idx' = idx + 1
                              /\ pc' = pc
                              /\ expanded' =
                                    expanded \cup {member.distinguishedName}
                ELSE /\ members' = ListRemove(members, member)
                     /\ idx' = idx + 1
                     /\ pc' = pc
                     /\ expanded' = expanded
    /\ UNCHANGED <<groups, all_users, passed, filterVars, restVars>>

-----------------------------------------------------------------------------
(* The scope filter.                                                       *)

\* Python `s in t` for two strings: s occurs in t as a contiguous run.
StrIn(s, t) ==
    \E i \in 0..(Len(t) - Len(s)) : SubSeq(t, i + 1, i + Len(s)) = s

\* Organizational-unit paths: the non-empty strings over a two-letter alphabet.
Chars == {"a", "b"}
Paths == SeqsUpTo(Chars, MaxPathLen) \ {<<>>}
Names == {"n1", "n2"}
\* The userAccountControl value remove_excluded_users tests for.
DISABLED_UAC == 514
\* userAccountControl values of the directory: a normal account (512), a
\* disabled account (514 = 512 + ACCOUNTDISABLE, the flag of value 2) and a
\* disabled account that needs no password (546 = 512 + 32 + 2).
UserAccountControls == {512, 514, 546}

\* The attributes of LdapUser and of LdapGroup that the filter reads.
UserRecords ==
    [cn : Names, sAMAccountName : Names,
     userAccountControl : UserAccountControls, parent_ou : Paths]

GroupRecords == [cn : Names, sAMAccountName : Names, parent_ou : Paths]

\* Lines 299-302: the exclusion test of one user against the OU lists.
UserOuExcluded(user) ==
    \E k \in 1..Len(excludedOrganizationalUnits) :
        /\ StrIn(excludedOrganizationalUnits[k], user.parent_ou)
        /\ ~ListIn(user.parent_ou, includedOrganizationalUnits)

\* Python `t.startswith(s)`.
StartsWith(t, s) == Len(s) <= Len(t) /\ SubSeq(t, 1, Len(s)) = s

\* remove_users_from_excluded_ou with startswith in place of `in`.
remove_users_from_excluded_ou_prefix(users) ==
    LET exclude(user) ==
            \E k \in 1..Len(excludedOrganizationalUnits) :
                /\ StartsWith(user.parent_ou, excludedOrganizationalUnits[k])
                /\ ~ListIn(user.parent_ou, includedOrganizationalUnits)
        keep(user) == ~exclude(user)
    IN  SelectSeq(users, keep)

\* Lines 287-305.
remove_users_from_excluded_ou(users) ==
    LET keep(user) == ~UserOuExcluded(user)
    IN  SelectSeq(users, keep)

\* The identifier and disabled-account test of lines 319-321.
UserKept(user) ==
    /\ ~ListIn(user.cn, excludedUsers)
    /\ ~ListIn(user.sAMAccountName, excludedUsers)
    /\ user.userAccountControl # DISABLED_UAC

\* remove_excluded_users written as `for user in users: ... users.remove(user)`
\* on the list it iterates over: the element after a removed one is skipped.
RECURSIVE RemoveWhileIterating(_, _)
RemoveWhileIterating(lst, i) ==
    IF i > Len(lst)
    THEN lst
    ELSE IF ~UserKept(lst[i]) \/ UserOuExcluded(lst[i])
         THEN RemoveWhileIterating(ListRemove(lst, lst[i]), i + 1)
         ELSE RemoveWhileIterating(lst, i + 1)

remove_excluded_users_in_place(users) == RemoveWhileIterating(users, 1)

\* Lines 307-324.
remove_excluded_users(users) ==
    remove_users_from_excluded_ou(SelectSeq(users, UserKept))

\* Lines 369-372: the exclusion test of one group against the OU lists.
GroupOuExcluded(group) ==
    \E k \in 1..Len(excludedOrganizationalUnits) :
        /\ StrIn(excludedOrganizationalUnits[k], group.parent_ou)
        /\ ~ListIn(excludedOrganizationalUnits[k], includedOrganizationalUnits)

\* Lines 357-375.
remove_groups_from_excluded_ou(grps) ==
    LET keep(group) == ~GroupOuExcluded(group)
    IN  SelectSeq(grps, keep)

\* The identifier test of lines 389-390.
GroupKept(group) ==
    /\ ~ListIn(group.cn, excludedGroups)
    /\ ~ListIn(group.sAMAccountName, excludedGroups)

Reverse(lst) == [i \in 1..Len(lst) |-> lst[Len(lst) + 1 - i]]

\* remove_excluded_groups with group_list.insert(0, group) in place of append.
remove_excluded_groups_insert_front(grps) ==
    remove_groups_from_excluded_ou(Reverse(SelectSeq(grps, GroupKept)))

\* Lines 377-393.
remove_excluded_groups(grps) ==
    remove_groups_from_excluded_ou(SelectSeq(grps, GroupKept))

\* The lists handed to the filter.  A list of one object ranges over every
\* object; a longer list is made of objects whose cn and sAMAccountName agree
\* and whose parent path has full length.
PlainUsers ==
    {u \in UserRecords : u.cn = u.sAMAccountName /\ Len(u.parent_ou) = MaxPathLen}
PlainGroups ==
    {g \in GroupRecords : g.cn = g.sAMAccountName /\ Len(g.parent_ou) = MaxPathLen}
UserLists == SeqsUpTo(UserRecords, 1) \cup SeqsUpTo(PlainUsers, MaxListLen)
GroupLists == SeqsUpTo(GroupRecords, 1) \cup SeqsUpTo(PlainGroups, MaxListLen)

\* The names a policy list may hold; "n2" is a name no policy list mentions.
PolicyNames == {"n1"}

RemoveExcludedUsers(users) ==
    /\ arg' = users
    /\ ret' = remove_excluded_users(users)
    /\ op' = "users"
    /\ UNCHANGED <<flattenVars, policyVars, restVars>>

RemoveExcludedGroups(grps) ==
    /\ arg' = grps
    /\ ret' = remove_excluded_groups(grps)
    /\ op' = "groups"
    /\ UNCHANGED <<flattenVars, policyVars, restVars>>

\* The filter applied to its own output.
RefilterUsers ==
    /\ op = "users"
    /\ arg' = ret
    /\ ret' = remove_excluded_users(ret)
    /\ op' = "users again"
    /\ UNCHANGED <<flattenVars, policyVars, restVars>>

RefilterGroups ==
    /\ op = "groups"
    /\ arg' = ret
    /\ ret' = remove_excluded_groups(ret)
    /\ op' = "groups again"
    /\ UNCHANGED <<flattenVars, policyVars, restVars>>

-----------------------------------------------------------------------------

\* No paged fetch has been started.
PagingIdle ==
    /\ fetcher = "none"
    /\ fetch_pc = "idle"
    /\ nextPageToken = ""
    /\ out_list = <<>>
    /\ served = <<>>
    /\ fetch_ret = <<>>

\* No group object whose settings are worked on.
SettingsIdle ==
    /\ settings = <<>>
    /\ sg_calls = 0
    /\ sg_op = "none"
    /\ sg_ret = "none"
    /\ sg_patched = FALSE

\* No single-step operation has been called.
CallsIdle ==
    /\ call_fn = "none"
    /\ call_in = <<>>
    /\ call_out = <<>>

\* No object is being constructed.
FillIdle ==
    /\ fill_cls = "none"
    /\ fill_pc = "idle"
    /\ fill_kind = "none"
    /\ fill_given = <<>>
    /\ fill_dict = <<>>
    /\ fill_attrs = <<>>
    /\ fill_retries = 0

RestIdle == PagingIdle /\ SettingsIdle /\ CallsIdle /\ FillIdle

InitFlatten ==
    /\ groups \in {g \in [1..NumGroups -> LdapGroups] :
                      \A i \in 1..NumGroups :
                          g[i].distinguishedName = <<"CN=group", i>>}
    /\ all_users = [i \in 1..NumUsers |-> [distinguishedName |-> <<"CN=user", i>>]]
    /\ members = <<>>
    /\ passed = <<>>
    /\ pc = "idle"
    /\ idx = 0
    /\ expanded = {}
    /\ excludedOrganizationalUnits = <<>>
    /\ excludedUsers = <<>>
    /\ excludedGroups = <<>>
    /\ includedOrganizationalUnits = <<>>
    /\ includedUsers = <<>>
    /\ includedGroups = <<>>
    /\ arg = <<>>
    /\ ret = <<>>
    /\ op = "none"
    /\ RestIdle

CallAny == \E ms \in DistinctSeqsUpTo(CachedObjects, MaxMembers) : Call(ms)

NextFlatten == CallAny \/ WhileCheck \/ ForStep

SpecFlatten == InitFlatten /\ [][NextFlatten]_vars

FairFlatten == SpecFlatten /\ WF_vars(NextFlatten)

\* The state after LdapDirectory.__init__ has read the two policy files.
InitFilter ==
    /\ excludedOrganizationalUnits \in SeqsUpTo(Paths, MaxPolicyLen)
    /\ includedOrganizationalUnits \in SeqsUpTo(Paths, MaxPolicyLen)
    /\ excludedUsers \in SeqsUpTo(PolicyNames, MaxPolicyLen)
    /\ includedUsers \in SeqsUpTo(PolicyNames, MaxPolicyLen)
    /\ excludedGroups \in SeqsUpTo(PolicyNames, MaxPolicyLen)
    /\ includedGroups \in SeqsUpTo(PolicyNames, MaxPolicyLen)
    /\ arg = <<>>
    /\ ret = <<>>
    /\ op = "none"
    /\ groups = <<>>
    /\ all_users = <<>>
    /\ members = <<>>
    /\ passed = <<>>
    /\ pc = "idle"
    /\ idx = 0
    /\ expanded = {}
    /\ RestIdle

FilterUsers == \E users \in UserLists : op = "none" /\ RemoveExcludedUsers(users)

FilterGroups == \E grps \in GroupLists : op = "none" /\ RemoveExcludedGroups(grps)

NextFilter == FilterUsers \/ FilterGroups \/ RefilterUsers \/ RefilterGroups

SpecFilter == InitFilter /\ [][NextFilter]_vars

-----------------------------------------------------------------------------
(* The membership graph as a graph: what the claims about flattening        *)
(* compare the work-list with.                                             *)

IsCachedGroupDN(dn) == \E i \in 1..Len(groups) : groups[i].distinguishedName = dn
IsCachedUserDN(dn) == \E i \in 1..Len(all_users) : all_users[i].distinguishedName = dn

\* The member DNs a DN leads to: those of the cached group it names.
EdgesOf(dn) ==
    IF IsCachedGroupDN(dn) /\ MembersTruthy(GroupOf(GroupObj(dn)))
    THEN Range(GroupOf(GroupObj(dn)).members)
    ELSE {}

RECURSIVE Closure(_)
Closure(S) ==
    LET T == S \cup UNION {EdgesOf(dn) : dn \in S}
    IN  IF T = S THEN S ELSE Closure(T)

Acyclic == \A i \in 1..Len(groups) :
    groups[i].distinguishedName \notin Closure(EdgesOf(groups[i].distinguishedName))

EveryMemberResolves == \A i \in 1..Len(groups) :
    \A dn \in Range(groups[i].members) : IsCachedGroupDN(dn) \/ IsCachedUserDN(dn)

\* The users reachable from a list of objects by following membership edges.
ReachableUsers(lst) ==
    {dn \in Closure({lst[i].distinguishedName : i \in 1..Len(lst)}) : IsCachedUserDN(dn)}

UsersIn(lst) ==
    {lst[i].distinguishedName : i \in {j \in 1..Len(lst) : lst[j].type = "LdapUser"}}

GroupsIn(lst) ==
    {lst[i].distinguishedName : i \in {j \in 1..Len(lst) : lst[j].type = "LdapGroup"}}

\* The work-list never outgrows MaxWorkList on an acyclic graph, so the length
\* guard of ForStep only ever stops a run on a cyclic graph.
AcyclicFitsWorkList == Acyclic => Len(members) <= MaxWorkList

-----------------------------------------------------------------------------
(* C1: on an acyclic membership graph in which every member DN resolves,   *)
(* what get_nested_member_users returns is, as a set, exactly the users    *)
(* reachable from the list it was started on: none missing, none extra,    *)
(* and no group left in it.                                                *)
C1_FlattenReachable ==
    (pc = "done" /\ Acyclic /\ EveryMemberResolves) =>
        /\ GroupsIn(members) = {}
        /\ UsersIn(members) = ReachableUsers(passed)

\* A finished call that went through two levels of nesting to reach a user.
C1_Witness ==
    /\ pc = "done"
    /\ Acyclic
    /\ EveryMemberResolves
    /\ \E g \in GroupsIn(passed) : \E h \in EdgesOf(g) :
          /\ IsCachedGroupDN(h)
          /\ \E u \in EdgesOf(h) : IsCachedUserDN(u) /\ u \in UsersIn(members)
                                     /\ u \notin UsersIn(passed)

(* C2: cycle safety.  With group 1 listing only group 2 and group 2 listing *)
(* only group 1, flattening the direct members of group 1 terminates and   *)
(* returns the empty list.                                                 *)
CycleAB ==
    /\ groups[1].members = << <<"CN=group", 2>> >>
    /\ groups[2].members = << <<"CN=group", 1>> >>
    /\ passed = <<GroupObj(<<"CN=group", 2>>)>>
    /\ pc = "while"

C2_CycleTerminates == CycleAB ~> (pc = "done" /\ members = <<>>)

(* C3: a member DN that resolves to neither a cached group nor a cached    *)
(* user is never fatal: no call of get_nested_member_users ends in an      *)
(* error.                                                                  *)
C3_UnresolvedNeverFatal == pc # "raised"

(* C9: flattening treats its inputs as frozen snapshots.  No step of       *)
(* get_nested_member_users changes the cached group objects (and so no     *)
(* group's members sequence) or the cached users, and when it returns or   *)
(* raises the list the caller passed in holds the same elements in the     *)
(* same order as at the call.                                              *)
C9_InputsFrozen ==
    [][/\ groups' = groups
       /\ all_users' = all_users
       /\ (pc' \in {"done", "raised"} => members' = passed')]_vars

-----------------------------------------------------------------------------
(* What the claims about the scope filter are stated with.                 *)

\* The directory-level disabled flag: ACCOUNTDISABLE, the bit of value 2 of
\* userAccountControl.
IsDisabled(user) == (user.userAccountControl \div 2) % 2 = 1

UserCall == op \in {"users", "users again"}
GroupCall == op \in {"groups", "groups again"}

IdentifierExcluded(obj, excluded) ==
    ListIn(obj.cn, excluded) \/ ListIn(obj.sAMAccountName, excluded)

\* Location exclusion as the specification words it: an excluded path is a
\* prefix of the parent path, and the parent path is not an included one.
PrefixLocationExcluded(obj) ==
    /\ \E k \in 1..Len(excludedOrganizationalUnits) :
          StartsWith(obj.parent_ou, excludedOrganizationalUnits[k])
    /\ ~ListIn(obj.parent_ou, includedOrganizationalUnits)

\* Location exclusion with "occurs anywhere in" for "is a prefix of".
SubstringLocationExcluded(obj) ==
    /\ \E k \in 1..Len(excludedOrganizationalUnits) :
          StrIn(excludedOrganizationalUnits[k], obj.parent_ou)
    /\ ~ListIn(obj.parent_ou, includedOrganizationalUnits)

RECURSIVE IsSubsequence(_, _)
IsSubsequence(s, t) ==
    IF s = <<>> THEN TRUE
    ELSE IF t = <<>> THEN FALSE
    ELSE IF Head(s) = Head(t) THEN IsSubsequence(Tail(s), Tail(t))
    ELSE IsSubsequence(s, Tail(t))

MatchesExcludedLocation(obj) ==
    \E k \in 1..Len(excludedOrganizationalUnits) :
        StartsWith(obj.parent_ou, excludedOrganizationalUnits[k])

C5_LocationOverride ==
    /\ UserCall =>
          \A i \in 1..Len(arg) :
              (/\ ~IsDisabled(arg[i])
               /\ ~IdentifierExcluded(arg[i], excludedUsers)
               /\ MatchesExcludedLocation(arg[i])) =>
                  (ListIn(arg[i], ret)
                      <=> ListIn(arg[i].parent_ou, includedOrganizationalUnits))
    /\ GroupCall =>
          \A i \in 1..Len(arg) :
              (/\ ~IdentifierExcluded(arg[i], excludedGroups)
               /\ MatchesExcludedLocation(arg[i])) =>
                  (ListIn(arg[i], ret)
                      <=> ListIn(arg[i].parent_ou, includedOrganizationalUnits))

(* C6: override precedence for identifiers.  Filtering a list that holds   *)
(* only one object whose cn or sAMAccountName is both an excluded and an   *)
(* included identifier returns that object (the object being neither       *)
(* disabled nor location-excluded).                                        *)
InBoth(obj, excluded, included) ==
    \/ ListIn(obj.cn, excluded) /\ ListIn(obj.cn, included)
    \/ ListIn(obj.sAMAccountName, excluded) /\ ListIn(obj.sAMAccountName, included)

C6_InclusionWins ==
    /\ (/\ op = "users"
        /\ Len(arg) = 1
        /\ InBoth(arg[1], excludedUsers, includedUsers)
        /\ ~IsDisabled(arg[1])
        /\ ~UserOuExcluded(arg[1])) => ret = arg
    /\ (/\ op = "groups"
        /\ Len(arg) = 1
        /\ InBoth(arg[1], excludedGroups, includedGroups)
        /\ ~GroupOuExcluded(arg[1])) => ret = arg

(* C7: a user whose account-disabled flag is set never appears in what     *)
(* remove_excluded_users returns, whatever the policy.                     *)
C7_DisabledNeverRetained ==
    UserCall => \A i \in 1..Len(ret) : ~IsDisabled(ret[i])

(* C8: filtering is idempotent: remove_excluded_users, and                  *)
(* remove_excluded_groups, applied to its own output under the same policy *)
(* returns a list equal to that output.                                    *)
C8_Idempotent == op \in {"users again", "groups again"} => ret = arg

\* The filter re-applied to a non-empty output under a policy that excludes
\* both an identifier and a location.
C8_Witness ==
    /\ op = "users again"
    /\ Len(arg) = MaxListLen
    /\ excludedUsers # <<>>
    /\ excludedOrganizationalUnits # <<>>
    /\ ret = arg

(* C10: the scope filter is a pure function.  No call changes any of the   *)
(* six policy lists, the list handed to a second call is after that call   *)
(* what it was before it, and what a call returns is a subsequence of its  *)
(* input, in the input's order.                                            *)
C10_FilterPure ==
    [][/\ policyVars' = policyVars
       /\ (op # "none" => arg' = ret)
       /\ IsSubsequence(ret', arg')]_vars

\* A call that dropped the first object of its input and kept the second.
C10_Witness ==
    /\ op = "groups"
    /\ Len(arg) = 2
    /\ ret = <<arg[2]>>
    /\ arg[1] # arg[2]

-----------------------------------------------------------------------------
(* Claims about the steps of get_nested_member_users.                      *)

\* How often x occurs in a list.
Count(lst, x) == Cardinality({i \in 1..Len(lst) : lst[i] = x})

\* The iterator is about to hand out a group whose members attribute is None
\* or the empty list.
AtMemberlessGroup ==
    /\ pc = "for"
    /\ idx < Len(members)
    /\ members[idx + 1].type = "LdapGroup"
    /\ ~MembersTruthy(GroupOf(members[idx + 1]))

\* The iterator is about to hand out the group dn, which has members.
AtGroupWithMembers(dn) ==
    /\ pc = "for"
    /\ idx < Len(members)
    /\ members[idx + 1] = GroupObj(dn)
    /\ MembersTruthy(GroupOf(members[idx + 1]))

(* C11: a group with no members contributes nothing.  A call on the empty  *)
(* list returns the empty list straight from the first scan, without       *)
(* entering the for loop; and the step that meets a nested group whose     *)
(* members attribute is empty or absent takes exactly one occurrence of    *)
(* that group out of the work-list, adds no entry and cannot raise (it     *)
(* resolves no DN).                                                        *)
C11_MemberlessContributesNothing ==
    [][ /\ (passed' = <<>> /\ pc' \notin {"idle", "while"}) =>
              (pc' = "done" /\ members' = <<>>)
        /\ AtMemberlessGroup =>
              /\ pc' = "for"
              /\ Len(members') = Len(members) - 1
              /\ \A o \in Range(members) :
                    Count(members', o) =
                        Count(members, o) - (IF o = members[idx + 1] THEN 1 ELSE 0)
      ]_vars

\* A finished call that expanded a group and ended with nothing: every group
\* below the expanded one was memberless and was taken out.
C11_Witness ==
    /\ pc = "done"
    /\ expanded # {}
    /\ members = <<>>
    /\ \E i \in 1..Len(groups) :
          /\ ~groups[i].has_member
          /\ groups[i].distinguishedName \in
                UNION {EdgesOf(dn) : dn \in expanded}

(* C12: the list get_nested_member_users returns holds each user at most   *)
(* once, also when the user is reachable along two membership paths.       *)
C12_ResultIsSet ==
    pc = "done" => \A i, j \in 1..Len(members) : members[i] = members[j] => i = j

(* C13: within one call no group is replaced by its members more than      *)
(* once: the step that expands a group never expands one that this call    *)
(* has expanded before.                                                    *)
C13_ExpandedAtMostOnce ==
    [][ \A dn \in GroupDNs :
            (AtGroupWithMembers(dn) /\ pc' = "for") => dn \notin expanded ]_vars

(* C20: get_nested_member_users returns exactly when its scan finds no     *)
(* group in the work-list: a return happens only from a scan of a list     *)
(* without a group and hands back that list unchanged, a scan of a list    *)
(* without a group always returns, and a returned list holds LdapUser      *)
(* objects only.                                                           *)
C20_ReturnsWhenNoGroupRemains ==
    [][ /\ (pc' = "done" /\ pc # "done") =>
              /\ pc = "while"
              /\ GroupsIn(members) = {}
              /\ members' = members
        /\ (pc = "while" /\ GroupsIn(members) = {}) => pc' = "done"
        /\ pc' = "done" =>
              \A i \in 1..Len(members') : members'[i].type = "LdapUser"
      ]_vars

\* A return of a non-empty list of users after groups had been expanded, with
\* a user in front of a group in the list the call started on.
C20_Witness ==
    /\ pc = "done"
    /\ expanded # {}
    /\ members # <<>>
    /\ Len(passed) = 2
    /\ passed[1].type = "LdapUser"
    /\ passed[2].type = "LdapGroup"

-----------------------------------------------------------------------------
(* The Google side.  While one of its operations runs, the LDAP side is    *)
(* at rest.                                                                *)

LdapIdle ==
    /\ groups = <<>>
    /\ all_users = <<>>
    /\ members = <<>>
    /\ passed = <<>>
    /\ pc = "idle"
    /\ idx = 0
    /\ expanded = {}
    /\ excludedOrganizationalUnits = <<>>
    /\ excludedUsers = <<>>
    /\ excludedGroups = <<>>
    /\ includedOrganizationalUnits = <<>>
    /\ includedUsers = <<>>
    /\ includedGroups = <<>>
    /\ arg = <<>>
    /\ ret = <<>>
    /\ op = "none"

(* The paged fetches: GoogleGroup.get_members (group.py) and               *)
(* GoogleUser.get_all_users (user.py), one action per round of the while   *)
(* loop.                                                                   *)

MaxPages == 3        \* result pages one fetch is followed through
MaxPageItems == 2    \* members or users on one result page

Emails == {"e1", "e2"}
Tokens == {"t1", "t2"}

\* A result page of members().list or users().list: the key nextPageToken and
\* the key of the item list ('members', 'users') may each be missing.  An item
\* is written as the e-mail address it carries.
Pages ==
    {p \in [has_nextPageToken : BOOLEAN, nextPageToken : Tokens,
            has_items : BOOLEAN, items : SeqsUpTo(Emails, MaxPageItems)] :
        /\ ~p.has_nextPageToken => p.nextPageToken = "t1"
        /\ ~p.has_items => p.items = <<>>}

\* GoogleUser(service=service, user_dict=user)
GoogleUserObj(email) == [type |-> "GoogleUser", primaryEmail |-> email]

\* What the for loop over the items of one page appends to out_list.
Collect(f, items) ==
    [i \in 1..Len(items) |->
        IF f = "get_members" THEN items[i] ELSE GoogleUserObj(items[i])]

StartFetch(f) ==
    /\ fetch_pc = "idle"
    /\ fetcher' = f
    /\ fetch_pc' = "loop"
    /\ nextPageToken' = "dummy"
    /\ out_list' = <<>>
    /\ served' = <<>>
    /\ fetch_ret' = <<>>
    /\ UNCHANGED <<flattenVars, filterVars, settingsVars, callVars, fillVars>>

\* One round of `while nextPageToken != ''`: the request, the two try blocks,
\* the for loop, and the return when the loop test or line 89 / 351 ends the
\* call.
FetchPage(page) ==
    /\ fetch_pc = "loop"
    /\ nextPageToken # ""
    /\ page.has_nextPageToken => Len(served) + 1 < MaxPages
    /\ served' = Append(served, page)
    /\ nextPageToken' = (IF page.has_nextPageToken THEN page.nextPageToken ELSE "")
    /\ IF ~page.has_items
       THEN /\ fetch_pc' = "returned"
            /\ fetch_ret' = <<>>
            /\ out_list' = out_list
       ELSE /\ out_list' = out_list \o Collect(fetcher, page.items)
            /\ IF page.has_nextPageToken
               THEN /\ fetch_pc' = "loop"
                    /\ fetch_ret' = fetch_ret
               ELSE /\ fetch_pc' = "returned"
                    /\ fetch_ret' = (IF Len(out_list') > 0 THEN out_list' ELSE <<>>)
    /\ UNCHANGED <<fetcher, flattenVars, filterVars, settingsVars, callVars, fillVars>>

InitPaging == LdapIdle /\ PagingIdle /\ SettingsIdle /\ CallsIdle /\ FillIdle

GetMembers == StartFetch("get_members")

GetAllUsers == StartFetch("get_all_users")

FetchAnyPage == \E page \in Pages : FetchPage(page)

NextPaging == GetMembers \/ GetAllUsers \/ FetchAnyPage

SpecPaging == InitPaging /\ [][NextPaging]_vars

\* The items of a sequence of pages, page after page.
RECURSIVE AllItems(_)
AllItems(pages) ==
    IF pages = <<>> THEN <<>>
    ELSE AllItems(SubSeq(pages, 1, Len(pages) - 1)) \o pages[Len(pages)].items

(* C14: a paged fetch returns everything: what get_members and             *)
(* get_all_users return is made of the items of all the pages the API      *)
(* served, in page order, whether or not a page carries an item list.      *)
C14_PagedFetchReturnsAll ==
    fetch_pc = "returned" => fetch_ret = Collect(fetcher, AllItems(served))

-----------------------------------------------------------------------------
(* GoogleGroup.settings and the operations that write it:                  *)
(* change_to_security_group and hide_from_GAL (group.py).                  *)

MaxCalls == 2        \* operations called on one group object

\* A Python value of the settings dict: a str or a bool.
StrV(text) == [type |-> "str", v |-> text]
BoolV(b) == [type |-> "bool", v |-> b]

\* The keys of GoogleGroup.security_group_settings in the order of the dict.
SettingKeys ==
    <<"whoCanJoin", "whoCanViewMembership", "whoCanViewGroup", "isArchived",
      "archiveOnly", "showInGroupDirectory", "includeInGlobalAddressList",
      "whoCanPostMessage">>

security_group_settings ==
    [k \in Range(SettingKeys) |->
        CASE k = "whoCanJoin" -> StrV("INVITED_CAN_JOIN")
          [] k = "whoCanViewMembership" -> StrV("ALL_OWNERS_CAN_VIEW")
          [] k = "whoCanViewGroup" -> StrV("ALL_OWNERS_CAN_VIEW")
          [] k = "whoCanPostMessage" -> StrV("ALL_OWNERS_CAN_POST")
          [] OTHER -> BoolV(FALSE)]

\* A value of the key that is not the default, as the Groups Settings API
\* names it.
OtherSetting ==
    [k \in Range(SettingKeys) |->
        CASE k = "whoCanJoin" -> StrV("ALL_IN_DOMAIN_CAN_JOIN")
          [] k = "whoCanViewMembership" -> StrV("ALL_MEMBERS_CAN_VIEW")
          [] k = "whoCanViewGroup" -> StrV("ALL_MEMBERS_CAN_VIEW")
          [] k = "whoCanPostMessage" -> StrV("ANYONE_CAN_POST")
          [] OTHER -> StrV("true")]

\* What groups().get of the settings service answers for a key: every value
\* is a string, a boolean setting comes as "true" or "false" (also taken in
\* here: the capitalised forms Python's str() gives).
ApiValue(k, choice) ==
    IF security_group_settings[k].type = "bool"
    THEN StrV(<<"false", "true", "False", "True">>[choice])
    ELSE IF choice = 1 THEN security_group_settings[k] ELSE OtherSetting[k]

ApiChoices(k) == IF security_group_settings[k].type = "bool" THEN 1..4 ELSE 1..2

ApiSettings ==
    {[k \in Range(SettingKeys) |-> ApiValue(k, c[k])] :
        c \in {d \in [Range(SettingKeys) -> 1..4] :
                  \A k \in Range(SettingKeys) : d[k] \in ApiChoices(k)}}

\* str.lower() on the strings of the model.
Lower(text) ==
    CASE text = "True" -> "true"
      [] text = "False" -> "false"
      [] text = "INVITED_CAN_JOIN" -> "invited_can_join"
      [] text = "ALL_IN_DOMAIN_CAN_JOIN" -> "all_in_domain_can_join"
      [] text = "ALL_OWNERS_CAN_VIEW" -> "all_owners_can_view"
      [] text = "ALL_MEMBERS_CAN_VIEW" -> "all_members_can_view"
      [] text = "ALL_OWNERS_CAN_POST" -> "all_owners_can_post"
      [] text = "ANYONE_CAN_POST" -> "anyone_can_post"
      [] OTHER -> text

\* str(v)
PyStr(val) ==
    IF val.type = "bool" THEN (IF val.v THEN "True" ELSE "False") ELSE val.v

\* Line 206, left of `or`: self.settings[k] != v and type(v) != bool.
DiffersAsString(k) ==
    settings[k] # security_group_settings[k] /\ security_group_settings[k].type # "bool"

\* Line 206-207, right of `or`, which Python evaluates only when the left
\* side is false: self.settings[k].lower() raises AttributeError on a bool.
LowerRaises(k) == ~DiffersAsString(k) /\ settings[k].type = "bool"

DiffersInLower(k) ==
    Lower(settings[k].v) # Lower(PyStr(security_group_settings[k]))

PatchNeededFor(k) == DiffersAsString(k) \/ DiffersInLower(k)

\* The position of the first key at which the loop raises, 0 when it runs
\* through.
FirstRaise ==
    IF \E i \in 1..Len(SettingKeys) : LowerRaises(SettingKeys[i])
    THEN CHOOSE i \in 1..Len(SettingKeys) :
            /\ LowerRaises(SettingKeys[i])
            /\ \A j \in 1..(i - 1) : ~LowerRaises(SettingKeys[j])
    ELSE 0

\* change_to_security_group, lines 203-218.
ChangeToSecurityGroup ==
    /\ settings # <<>>
    /\ sg_calls < MaxCalls
    /\ sg_calls' = sg_calls + 1
    /\ sg_op' = "change_to_security_group"
    /\ IF FirstRaise # 0
       THEN /\ settings' = [k \in Range(SettingKeys) |->
                               IF \E j \in 1..(FirstRaise - 1) : SettingKeys[j] = k
                               THEN security_group_settings[k]
                               ELSE settings[k]]
            /\ sg_ret' = "raised"
            /\ sg_patched' = FALSE
       ELSE LET patch_needed == \E k \in Range(SettingKeys) : PatchNeededFor(k)
            IN  /\ settings' = security_group_settings
                /\ sg_patched' = patch_needed
                /\ sg_ret' = (IF patch_needed THEN "True" ELSE "False")
    /\ UNCHANGED <<flattenVars, filterVars, pagingVars, callVars, fillVars>>

\* hide_from_GAL, lines 194-201.
HideFromGAL ==
    /\ settings # <<>>
    /\ sg_calls < MaxCalls
    /\ sg_calls' = sg_calls + 1
    /\ sg_op' = "hide_from_GAL"
    /\ settings' = [settings EXCEPT !["includeInGlobalAddressList"] = BoolV(FALSE)]
    /\ sg_patched' = TRUE
    /\ sg_ret' = "True"
    /\ UNCHANGED <<flattenVars, filterVars, pagingVars, callVars, fillVars>>

\* GoogleGroup.__init__, line 66: the settings as the service answers them.
InitSettings ==
    /\ LdapIdle
    /\ PagingIdle
    /\ CallsIdle
    /\ FillIdle
    /\ settings \in ApiSettings
    /\ sg_calls = 0
    /\ sg_op = "none"
    /\ sg_ret = "none"
    /\ sg_patched = FALSE

NextSettings == ChangeToSecurityGroup \/ HideFromGAL

SpecSettings == InitSettings /\ [][NextSettings]_vars

\* The key holds something else than the class default, a boolean default
\* being compared in lower case with the string form of what is stored.
HoldsNonDefault(k) ==
    IF security_group_settings[k].type = "bool"
    THEN Lower(PyStr(settings[k])) # Lower(PyStr(security_group_settings[k]))
    ELSE settings[k] # security_group_settings[k]

(* C19: every call of change_to_security_group returns; it returns True    *)
(* exactly when it sent the patch; it sends the patch exactly when some    *)
(* key of security_group_settings held a value other than the default      *)
(* (a boolean default compared case-insensitively in string form); and     *)
(* after it every key holds the default.                                   *)
C19_SecurityGroupPatch ==
    [][ (sg_calls' = sg_calls + 1 /\ sg_op' = "change_to_security_group") =>
            /\ sg_ret' \in {"True", "False"}
            /\ (sg_ret' = "True") <=> sg_patched'
            /\ sg_patched' <=> (\E k \in Range(SettingKeys) : HoldsNonDefault(k))
            /\ \A k \in Range(SettingKeys) : settings'[k] = security_group_settings[k]
      ]_vars

-----------------------------------------------------------------------------
(* Operations that run in one step: GoogleGroup.set_owner, LdapUser.modify *)
(* and LdapGroup.modify, Grade.make_ordinal, and the single-record lookups *)
(* of LdapDirectory.  They keep no state between calls, so a behaviour is  *)
(* one call: call_fn, call_in and call_out record it.                      *)

\* set_owner, group.py lines 139-157.  get_ok and update_ok say whether the
\* two requests members().get and members().update come back or raise.
set_owner(get_ok, update_ok) ==
    IF get_ok /\ update_ok
    THEN [result |-> "True", role_updated |-> TRUE]
    ELSE [result |-> "raised", role_updated |-> FALSE]

SetOwner(get_ok, update_ok) ==
    /\ call_fn = "none"
    /\ call_fn' = "set_owner"
    /\ call_in' = [get_ok |-> get_ok, update_ok |-> update_ok]
    /\ call_out' = set_owner(get_ok, update_ok)
    /\ UNCHANGED <<flattenVars, filterVars, pagingVars, settingsVars, fillVars>>

\* Python None among the attribute values.
NoneV == [type |-> "NoneType", v |-> "None"]

AttrValues == {NoneV, StrV("v1"), StrV("v2")}

\* The safe_to_change lists of lines 661 and 823.
safe_to_change(cls) ==
    IF cls = "LdapUser"
    THEN <<"givenName", "sn", "userAccountControl", "company", "title",
           "department", "description">>
    ELSE <<"groupType", "description">>

\* The attributes of self.__dict__ the model follows, in the order __init__
\* sets them: one that is safe to change and one that is not.
ModifyAttrs(cls) ==
    IF cls = "LdapUser" THEN <<"givenName", "mail">> ELSE <<"cn", "description">>

AttrDicts(cls) == [Range(ModifyAttrs(cls)) -> AttrValues]

\* Lines 665-677 for one attribute k with local value v: the conn.modify
\* calls it makes.
ModifyAttr(cls, k, v, live) ==
    IF live # v /\ ListIn(k, safe_to_change(cls))
    THEN (IF live # NoneV /\ v # NoneV
          THEN <<[attr |-> k, op |-> "MODIFY_REPLACE", value |-> v]>> ELSE <<>>)
         \o (IF live = NoneV /\ v # NoneV
             THEN <<[attr |-> k, op |-> "MODIFY_ADD", value |-> v]>> ELSE <<>>)
         \o (IF live # NoneV /\ v = NoneV
             THEN <<[attr |-> k, op |-> "MODIFY_DELETE", value |-> v]>> ELSE <<>>)
    ELSE <<>>

\* modify, lines 651-678 and 814-840.  found says whether get_user_by_sam /
\* get_group_by_sam gave an object; on None the first __getattribute__
\* raises AttributeError.
modify(cls, local, found, live) ==
    IF ~found
    THEN [result |-> "AttributeError", modifications |-> <<>>]
    ELSE LET attrs == ModifyAttrs(cls)
             F[i \in 0..Len(attrs)] ==
                 IF i = 0 THEN <<>>
                 ELSE F[i - 1] \o ModifyAttr(cls, attrs[i], local[attrs[i]],
                                             live[attrs[i]])
         IN  [result |-> "returned", modifications |-> F[Len(attrs)]]

Modify(cls, local, found, live) ==
    /\ call_fn = "none"
    /\ call_fn' = "modify"
    /\ call_in' = [cls |-> cls, local |-> local, found |-> found, live |-> live]
    /\ call_out' = modify(cls, local, found, live)
    /\ UNCHANGED <<flattenVars, filterVars, pagingVars, settingsVars, fillVars>>

(* Grade.make_ordinal, district.py lines 100-127.  Python strings are       *)
(* sequences of characters here, so that str(n) and the concatenations are  *)
(* computed and not assumed.                                                *)

MaxN == 213          \* the largest integer make_ordinal is called on
MaxNeg == 2          \* how far below zero the integers go

Digit(d) == <<"0", "1", "2", "3", "4", "5", "6", "7", "8", "9">>[d + 1]

RECURSIVE NatToStr(_)
NatToStr(n) ==
    IF n < 10 THEN <<Digit(n)>> ELSE NatToStr(n \div 10) \o <<Digit(n % 10)>>

\* str(n) for an int.
IntToStr(n) == IF n < 0 THEN <<"-">> \o NatToStr(0 - n) ELSE NatToStr(n)

IsDigit(c) == \E d \in 0..9 : Digit(d) = c

DigitValue(c) == CHOOSE d \in 0..9 : Digit(d) = c

RECURSIVE DigitsToNat(_)
DigitsToNat(t) ==
    IF Len(t) = 0 THEN 0
    ELSE 10 * DigitsToNat(SubSeq(t, 1, Len(t) - 1)) + DigitValue(t[Len(t)])

\* int(n) for a str: a run of digits with an optional minus sign, ValueError
\* (ok = FALSE) for anything else.
ParseInt(t) ==
    LET digits == IF Len(t) > 0 /\ t[1] = "-" THEN Tail(t) ELSE t
    IN  IF Len(digits) > 0 /\ \A i \in 1..Len(digits) : IsDigit(digits[i])
        THEN [ok |-> TRUE,
              value |-> IF digits = t THEN DigitsToNat(digits)
                        ELSE 0 - DigitsToNat(digits)]
        ELSE [ok |-> FALSE, value |-> 0]

\* str.lower() on the characters the arguments are made of.
LowerChars(t) ==
    [i \in 1..Len(t) |->
        CASE t[i] = "K" -> "k" [] t[i] = "P" -> "p" [] OTHER -> t[i]]

IntArg(n) == [type |-> "int", v |-> n]
StrArg(t) == [type |-> "str", v |-> t]

\* The arguments make_ordinal is called on: integers, and the strings a grade
\* name can be.
OrdinalArgs ==
    {IntArg(n) : n \in (0 - MaxNeg)..MaxN}
        \cup {StrArg(t) : t \in {<<"0">>, <<"-", "1">>, <<"k">>, <<"K">>,
                                 <<"p", "k">>, <<"P", "K">>, <<"7">>,
                                 <<"1", "2">>, <<"x">>}}

Kindergarten == <<"K", "i", "n", "d", "e", "r", "g", "a", "r", "t", "e", "n">>
Preschool == <<"P", "r", "e", "s", "c", "h", "o", "o", "l">>
GradeText == <<"G", "r", "a", "d", "e">>

Returned(t) == [raised |-> FALSE, value |-> t]

\* Lines 121-127, on the integer n.
OrdinalOfInt(n) ==
    LET listed == <<<<"t", "h">>, <<"s", "t">>, <<"n", "d">>, <<"r", "d">>,
                    <<"t", "h">>>>[(IF n % 10 < 4 THEN n % 10 ELSE 4) + 1]
        suffix == IF 11 <= (n % 100) /\ (n % 100) <= 13 THEN <<"t", "h">> ELSE listed
    IN  IF n > 0
        THEN Returned(IntToStr(n) \o suffix \o GradeText)
        ELSE Returned(IntToStr(n) \o suffix)

make_ordinal(n) ==
    IF n.type = "str" /\ n.v = <<"0">> THEN Returned(Kindergarten)
    ELSE IF n.type = "str" /\ n.v = <<"-", "1">> THEN Returned(Preschool)
    ELSE LET parsed == IF n.type = "int" THEN [ok |-> TRUE, value |-> n.v]
                       ELSE ParseInt(n.v)
         IN  IF parsed.ok THEN OrdinalOfInt(parsed.value)
             ELSE IF LowerChars(n.v) = <<"k">> THEN Returned(Kindergarten)
             ELSE IF LowerChars(n.v) = <<"p", "k">> THEN Returned(Preschool)
             ELSE [raised |-> TRUE, value |-> <<"T", "y", "p", "e", "E", "r", "r", "o", "r">>]

MakeOrdinal(n) ==
    /\ call_fn = "none"
    /\ call_fn' = "make_ordinal"
    /\ call_in' = n
    /\ call_out' = make_ordinal(n)
    /\ UNCHANGED <<flattenVars, filterVars, pagingVars, settingsVars, fillVars>>

(* The single-record lookups of LdapDirectory: get_user_by_sam,             *)
(* get_user_by_employeeid, get_user_by_mail (lines 86-153) and              *)
(* get_group_by_sam (lines 395-416).                                        *)

MaxEntries == 2      \* entries in the directory a lookup searches

LookupKeys == {"a", "b"}

\* An entry of the directory, with the attributes the four filters test.
DirectoryEntries ==
    [objectclass : {"user", "group"}, sAMAccountName : LookupKeys,
     employeeId : LookupKeys, mail : LookupKeys]

\* conn.extend.standard.paged_search with the filter
\* (&(objectclass=<objectclass>)(<attr>=<key>)): the matching entries in the
\* order of the directory.
paged_search(entries, objectclass, attr, key) ==
    LET Matches(e) == e.objectclass = objectclass /\ e[attr] = key
    IN  SelectSeq(entries, Matches)

\* LdapUser(user) / LdapGroup(group): the object made from an entry.
LdapObject(cls, entry) ==
    [type |-> cls, sAMAccountName |-> entry.sAMAccountName,
     employeeId |-> entry.employeeId, mail |-> entry.mail]

Objectify(cls, found) == [i \in 1..Len(found) |-> LdapObject(cls, found[i])]

\* A return that hands back the first of several matches.
FirstOrNone(objects) == IF Len(objects) >= 1 THEN objects[1] ELSE NoneV

\* `if len(user_objects) == 1: return user_objects[0] else: return None`
SingleOrNone(objects) == IF Len(objects) = 1 THEN objects[1] ELSE NoneV

get_user_by_sam(entries, sam) ==
    SingleOrNone(Objectify("LdapUser",
                           paged_search(entries, "user", "sAMAccountName", sam)))

get_user_by_employeeid(entries, employeeid) ==
    SingleOrNone(Objectify("LdapUser",
                           paged_search(entries, "user", "employeeId", employeeid)))

get_user_by_mail(entries, mail) ==
    SingleOrNone(Objectify("LdapUser", paged_search(entries, "user", "mail", mail)))

get_group_by_sam(entries, sam) ==
    SingleOrNone(Objectify("LdapGroup",
                           paged_search(entries, "group", "sAMAccountName", sam)))

LookupNames ==
    {"get_user_by_sam", "get_user_by_employeeid", "get_user_by_mail",
     "get_group_by_sam"}

Lookup(fn, entries, key) ==
    /\ call_fn = "none"
    /\ call_fn' = fn
    /\ call_in' = [entries |-> entries, key |-> key]
    /\ call_out' = CASE fn = "get_user_by_sam" -> get_user_by_sam(entries, key)
                     [] fn = "get_user_by_employeeid" ->
                            get_user_by_employeeid(entries, key)
                     [] fn = "get_user_by_mail" -> get_user_by_mail(entries, key)
                     [] fn = "get_group_by_sam" -> get_group_by_sam(entries, key)
    /\ UNCHANGED <<flattenVars, filterVars, pagingVars, settingsVars, fillVars>>

InitCalls == LdapIdle /\ PagingIdle /\ SettingsIdle /\ CallsIdle /\ FillIdle

SetOwnerAny == \E get_ok, update_ok \in BOOLEAN : SetOwner(get_ok, update_ok)

ModifyAny ==
    \E cls \in {"LdapUser", "LdapGroup"}, found \in BOOLEAN :
        \E local, live \in AttrDicts(cls) : Modify(cls, local, found, live)

MakeOrdinalAny == \E n \in OrdinalArgs : MakeOrdinal(n)

LookupAny ==
    \E fn \in LookupNames, key \in LookupKeys :
        \E entries \in SeqsUpTo(DirectoryEntries, MaxEntries) :
            Lookup(fn, entries, key)

NextCalls == SetOwnerAny \/ ModifyAny \/ MakeOrdinalAny \/ LookupAny

SpecCalls == InitCalls /\ [][NextCalls]_vars

-----------------------------------------------------------------------------
(* C15: set_owner reports its outcome as a boolean: True when both         *)
(* requests succeed, False (and no exception) when either of them fails.   *)
C15_SetOwnerReturnsBoolean ==
    call_fn = "set_owner" =>
        call_out.result =
            (IF call_in.get_ok /\ call_in.update_ok THEN "True" ELSE "False")

\* The attributes outside the safe-to-change list whose local value differs
\* from the one of the live record.
UnsafeChanges ==
    {k \in Range(ModifyAttrs(call_in.cls)) :
        /\ ~ListIn(k, safe_to_change(call_in.cls))
        /\ call_in.local[k] # call_in.live[k]}

(* C16: modify rejects unsafe changes: when an attribute outside the       *)
(* safe-to-change list differs between the local object and the live       *)
(* record, the call ends with an unsafe-change error and does not return.  *)
C16_ModifyRejectsUnsafe ==
    (call_fn = "modify" /\ call_in.found /\ UnsafeChanges # {}) =>
        call_out.result = "unsafeChange"

\* The English ordinal suffix of n.
EnglishSuffix(n) ==
    IF n % 100 \in 11..13 THEN <<"t", "h">>
    ELSE CASE n % 10 = 1 -> <<"s", "t">>
           [] n % 10 = 2 -> <<"n", "d">>
           [] n % 10 = 3 -> <<"r", "d">>
           [] OTHER -> <<"t", "h">>

(* C17: for every integer n >= 0, make_ordinal(n) is the decimal digits of  *)
(* n followed by the English ordinal suffix of n, and nothing else.         *)
C17_OrdinalIsDigitsAndSuffix ==
    (call_fn = "make_ordinal" /\ call_in.type = "int" /\ call_in.v >= 0) =>
        call_out = Returned(NatToStr(call_in.v) \o EnglishSuffix(call_in.v))

\* The entries of the searched directory that the filter of the lookup fn
\* matches, as positions.
MatchingEntries ==
    LET cls == IF call_fn = "get_group_by_sam" THEN "group" ELSE "user"
        attr == CASE call_fn = "get_user_by_employeeid" -> "employeeId"
                  [] call_fn = "get_user_by_mail" -> "mail"
                  [] OTHER -> "sAMAccountName"
    IN  {i \in 1..Len(call_in.entries) :
            /\ call_in.entries[i].objectclass = cls
            /\ call_in.entries[i][attr] = call_in.key}

(* C18: a single-record lookup returns the object of the matching entry    *)
(* when the search matches exactly one entry, and None when it matches     *)
(* none or more than one.                                                  *)
C18_SingleMatchOrNone ==
    call_fn \in LookupNames =>
        IF Cardinality(MatchingEntries) = 1
        THEN \A i \in MatchingEntries :
                call_out = LdapObject(IF call_fn = "get_group_by_sam"
                                      THEN "LdapGroup" ELSE "LdapUser",
                                      call_in.entries[i])
        ELSE call_out = NoneV

\* A lookup that matched two entries and returned None.
C18_Witness ==
    /\ call_fn \in LookupNames
    /\ Cardinality(MatchingEntries) = 2
    /\ call_out = NoneV

-----------------------------------------------------------------------------
(* Termination and the work-list invariant of get_nested_member_users.     *)

(* C22: on an acyclic membership graph in which every member DN resolves,  *)
(* every call of get_nested_member_users returns, although the for loop    *)
(* removes from and appends to the list it iterates over.                  *)
C22_AcyclicTerminates ==
    (pc = "while" /\ Acyclic /\ EveryMemberResolves) ~> (pc = "done")

\* A finished call on two groups with members: the removal of the first made
\* the iterator pass over the second, which a later pass expanded.
C22_Witness ==
    /\ pc = "done"
    /\ Acyclic
    /\ EveryMemberResolves
    /\ Len(passed) = 2
    /\ \A i \in 1..2 :
          /\ passed[i].type = "LdapGroup"
          /\ MembersTruthy(GroupOf(passed[i]))
          /\ passed[i].distinguishedName \in expanded

\* The objects the member DNs of the group dn stand for: the group of that
\* DN if there is one, the user otherwise.
DirectMemberObjects(dn) ==
    LET dns == GroupOf(GroupObj(dn)).members
    IN  [i \in 1..Len(dns) |->
            IF IsCachedGroupDN(dns[i]) THEN GroupObj(dns[i]) ELSE UserObj(dns[i])]

\* What one step of a running call does to the work-list.
WorkListStep ==
    pc \in {"while", "for"} =>
        /\ ReachableUsers(members') = ReachableUsers(passed)
        /\ \A o \in Range(members) :
              o.type = "LdapUser" => Count(members', o) >= Count(members, o)
        /\ \A dn \in GroupDNs :
              (AtGroupWithMembers(dn) /\ pc' = "for") =>
                  LET added == DirectMemberObjects(dn)
                      kept == SubSeq(members', 1, Len(members) - 1)
                  IN  /\ Len(members') = Len(members) - 1 + Len(added)
                      /\ SubSeq(members', Len(members), Len(members')) = added
                      /\ Count(kept, GroupObj(dn)) = Count(members, GroupObj(dn)) - 1
                      /\ \A o \in (Range(members) \ {GroupObj(dn)}) :
                            Count(kept, o) = Count(members, o)

(* C23: the work-list invariant.  At every step of a call the users        *)
(* reachable from the work-list are the users reachable from the list the  *)
(* call started on; no step takes a user entry out of the work-list; and   *)
(* the step that expands a group takes out exactly one occurrence of that  *)
(* group and appends exactly its resolved direct members, in their order.  *)
C23_WorkListInvariant == [][WorkListStep]_vars

\* In the middle of a call: a group has been expanded, the work-list holds a
\* user and a group, and a reachable user is still to come.
C23_Witness ==
    /\ pc = "for"
    /\ expanded # {}
    /\ UsersIn(members) # {}
    /\ GroupsIn(members) # {}
    /\ UsersIn(members) # ReachableUsers(passed)

-----------------------------------------------------------------------------
(* LdapUser.fill_attrs_from_dict (lines 578-632) and                       *)
(* LdapGroup.fill_from_dict (lines 728-763), one action per round of       *)
(* `while True`.                                                           *)

\* The assignments of the try block in their order, each <<attribute, key>>
\* for `self.<attribute> = self.dict['<key>']`.
UserAssignments ==
    <<<<"accountExpires", "accountExpires">>,
      <<"badPasswordTime", "badPasswordTime">>,
      <<"badPwdCount", "badPwdCount">>, <<"cn", "cn">>,
      <<"codePage", "codePage">>, <<"company", "company">>,
      <<"countryCode", "countryCode">>,
      <<"dSCorePropagationData", "dSCorePropagationData">>,
      <<"department", "department">>, <<"description", "description">>,
      <<"displayName", "displayName">>,
      <<"distinguishedName", "distinguishedName">>,
      <<"employeeId", "employeeID">>, <<"givenName", "givenName">>,
      <<"instanceType", "instanceType">>, <<"lastLogoff", "lastLogoff">>,
      <<"lastLogon", "lastLogon">>, <<"logon_count", "logonCount">>,
      <<"mail", "mail">>, <<"memberOf", "memberOf">>, <<"name", "name">>,
      <<"objectCategory", "objectCategory">>,
      <<"objectClass", "objectClass">>, <<"objectGUID", "objectGUID">>,
      <<"objectSid", "objectSid">>,
      <<"physicalDeliveryOfficeName", "physicalDeliveryOfficeName">>,
      <<"primaryGroupId", "primaryGroupID">>,
      <<"pwdLastSet", "pwdLastSet">>,
      <<"sAMAccountName", "sAMAccountName">>,
      <<"sAMAccountType", "sAMAccountType">>, <<"sn", "sn">>,
      <<"title", "title">>, <<"uSNChanged", "uSNChanged">>,
      <<"uSNCreated", "uSNCreated">>,
      <<"userAccountControl", "userAccountControl">>,
      <<"userPrincipalName", "userPrincipalName">>,
      <<"whenChanged", "whenChanged">>, <<"whenCreated", "whenCreated">>,
      <<"userPassword", "userPassword">>>>

GroupAssignments ==
    <<<<"distinguishedName", "distinguishedName">>,
      <<"description", "description">>, <<"cn", "cn">>,
      <<"groupType", "groupType">>, <<"instanceType", "instanceType">>,
      <<"members", "member">>, <<"info", "info">>,
      <<"memberOf", "memberOf">>, <<"name", "name">>, <<"mail", "mail">>,
      <<"objectCategory", "objectCategory">>,
      <<"objectClass", "objectClass">>, <<"objectGUID", "objectGUID">>,
      <<"objectSid", "objectSid">>, <<"sAMAccountName", "sAMAccountName">>,
      <<"sAMAccountType", "sAMAccountType">>,
      <<"uSNChanged", "USNChanged">>, <<"uSNCreated", "uSNCreated">>,
      <<"whenChanged", "whenChanged">>, <<"whenCreated", "whenChanged">>>>

Assignments(cls) == IF cls = "LdapUser" THEN UserAssignments ELSE GroupAssignments

AttrNames(cls) == {Assignments(cls)[i][1] : i \in 1..Len(Assignments(cls))}

\* A multi-valued attribute as the directory hands it over.
ListV(items) == [type |-> "list", v |-> items]

\* self.dict is a plain dict, or the CaseInsensitiveDict of the LDAP library,
\* which finds a key whatever its case.  Of the keys the code names only
\* 'USNChanged' differs in case from the name of the directory attribute.
FoldKey(kind, k) ==
    IF kind = "CaseInsensitiveDict" /\ k = "USNChanged" THEN "uSNChanged" ELSE k

HasKey(kind, d, k) == FoldKey(kind, k) \in DOMAIN d

GetItem(kind, d, k) == d[FoldKey(kind, k)]

SetItem(kind, d, k, val) ==
    [x \in DOMAIN d \cup {FoldKey(kind, k)} |->
        IF x = FoldKey(kind, k) THEN val ELSE d[x]]

\* str(error) for KeyError(k): the key between two quotes.
KeyErrorStr(k) == <<"'", k, "'">>

\* utils.str_missing_key: str(error) without its first and its last character.
str_missing_key(error) ==
    LET e == Tail(error)
    IN  SubSeq(e, 1, Len(e) - 1)[1]

\* The position of the first assignment whose key self.dict lacks, 0 when
\* every key is there.
FirstMissing(cls, kind, d) ==
    LET a == Assignments(cls)
    IN  IF \E i \in 1..Len(a) : ~HasKey(kind, d, a[i][2])
        THEN CHOOSE i \in 1..Len(a) :
                /\ ~HasKey(kind, d, a[i][2])
                /\ \A j \in 1..(i - 1) : HasKey(kind, d, a[j][2])
        ELSE 0

\* The position of the assignment of description when its value is the empty
\* list, on which `self.description[0]` raises IndexError; 0 otherwise.
EmptyDescription(cls, kind, d) ==
    LET a == Assignments(cls)
        at == CHOOSE i \in 1..Len(a) : a[i][1] = "description"
    IN  IF HasKey(kind, d, "description")
           /\ GetItem(kind, d, "description") = ListV(<<>>)
        THEN at ELSE 0

\* What the assignment leaves in the attribute: lines 598-599 and 740-741
\* put the first element of a list-valued description.
Assigned(attr, val) ==
    IF attr = "description" /\ val.type = "list" /\ Len(val.v) > 0
    THEN StrV(val.v[1])
    ELSE val

\* The attributes after the first n assignments of the try block.
AfterAssignments(cls, kind, d, attrs, n) ==
    LET a == Assignments(cls)
    IN  [x \in DOMAIN attrs |->
            IF \E i \in 1..n : a[i][1] = x
            THEN LET last == CHOOSE i \in 1..n :
                                /\ a[i][1] = x
                                /\ \A j \in (i + 1)..n : a[j][1] # x
                 IN  Assigned(x, GetItem(kind, d, a[last][2]))
            ELSE attrs[x]]

\* __init__ up to the call of the fill method: every attribute is None.
FillStart(cls, kind, d) ==
    /\ fill_pc = "idle"
    /\ fill_cls' = cls
    /\ fill_pc' = "loop"
    /\ fill_kind' = kind
    /\ fill_given' = d
    /\ fill_dict' = d
    /\ fill_attrs' = [x \in AttrNames(cls) |-> NoneV]
    /\ fill_retries' = 0
    /\ UNCHANGED <<flattenVars, filterVars, pagingVars, settingsVars, callVars>>

\* One round of the while loop: the try block up to the first exception.
FillTry ==
    /\ fill_pc = "loop"
    /\ LET missing == FirstMissing(fill_cls, fill_kind, fill_dict)
           empty == EmptyDescription(fill_cls, fill_kind, fill_dict)
           all == Len(Assignments(fill_cls))
       IN  IF empty # 0 /\ (missing = 0 \/ empty < missing)
           THEN /\ fill_pc' = "IndexError"
                /\ fill_attrs' = AfterAssignments(fill_cls, fill_kind, fill_dict,
                                                   fill_attrs, empty)
                /\ UNCHANGED <<fill_dict, fill_retries>>
           ELSE IF missing # 0
           THEN /\ fill_pc' = "loop"
                /\ fill_attrs' = AfterAssignments(fill_cls, fill_kind, fill_dict,
                                                   fill_attrs, missing - 1)
                /\ fill_dict' =
                      SetItem(fill_kind, fill_dict,
                              str_missing_key(KeyErrorStr(
                                  Assignments(fill_cls)[missing][2])),
                              NoneV)
                /\ fill_retries' = fill_retries + 1
           ELSE /\ fill_pc' = "done"
                /\ fill_attrs' = AfterAssignments(fill_cls, fill_kind, fill_dict,
                                                   fill_attrs, all)
                /\ UNCHANGED <<fill_dict, fill_retries>>
    /\ UNCHANGED <<fill_cls, fill_kind, fill_given, flattenVars, filterVars,
                   pagingVars, settingsVars, callVars>>

\* The key of the directory record an attribute is named after.
ExpectedKey(attr) ==
    CASE attr = "employeeId" -> "employeeID"
      [] attr = "logon_count" -> "logonCount"
      [] attr = "primaryGroupId" -> "primaryGroupID"
      [] attr = "members" -> "member"
      [] OTHER -> attr

ExpectedKeys(cls) == {ExpectedKey(attr) : attr \in AttrNames(cls)}

\* The dictionaries the constructors are given.  Five keys are there or not
\* one by one, with the values listed; the other keys are there all together
\* or not at all.
VaryingKeys == {"description", "cn", "uSNChanged", "whenChanged", "whenCreated"}

KeyChoices(k) ==
    CASE k = "description" ->
            <<StrV("v1"), ListV(<<"v1">>), ListV(<<"v1", "v2">>), ListV(<<>>)>>
      [] k \in {"whenChanged", "whenCreated"} -> <<StrV("v1"), StrV("v2")>>
      [] OTHER -> <<StrV("v1")>>

\* choice[k] = 0 leaves the key k out.
ChoiceVectors ==
    {c \in [VaryingKeys -> 0..4] : \A k \in VaryingKeys : c[k] <= Len(KeyChoices(k))}

MakeDict(cls, choice, rest) ==
    [k \in {x \in VaryingKeys : choice[x] # 0}
            \cup (IF rest THEN ExpectedKeys(cls) \ VaryingKeys ELSE {}) |->
        IF k \in VaryingKeys THEN KeyChoices(k)[choice[k]] ELSE StrV("v1")]

GivenDicts(cls) ==
    {MakeDict(cls, choice, rest) : choice \in ChoiceVectors, rest \in BOOLEAN}

DictKinds == {"dict", "CaseInsensitiveDict"}

InitFill == LdapIdle /\ RestIdle

FillUser ==
    /\ fill_pc = "idle"
    /\ \E kind \in DictKinds, d \in GivenDicts("LdapUser") :
          FillStart("LdapUser", kind, d)

FillGroup ==
    /\ fill_pc = "idle"
    /\ \E kind \in DictKinds, d \in GivenDicts("LdapGroup") :
          FillStart("LdapGroup", kind, d)

NextFill == FillUser \/ FillGroup \/ FillTry

SpecFill == InitFill /\ [][NextFill]_vars

(* C21: the fill loop.  Every retry has added exactly one key, missing     *)
(* before, with the value None, and has left the given keys as they were;  *)
(* there are at most as many retries as expected keys; and when the loop   *)
(* is left, every attribute whose key was absent from the given dictionary *)
(* is None and every attribute whose key was present holds the value the   *)
(* dictionary gave for it.                                                 *)
C21_FillFromDict ==
    fill_pc # "idle" =>
        /\ fill_retries <= Cardinality(ExpectedKeys(fill_cls))
        /\ DOMAIN fill_given \subseteq DOMAIN fill_dict
        /\ Cardinality(DOMAIN fill_dict) =
              Cardinality(DOMAIN fill_given) + fill_retries
        /\ \A k \in DOMAIN fill_dict :
              fill_dict[k] = (IF k \in DOMAIN fill_given THEN fill_given[k] ELSE NoneV)
        /\ fill_pc = "done" =>
              \A attr \in AttrNames(fill_cls) :
                  fill_attrs[attr] =
                      (IF ExpectedKey(attr) \in DOMAIN fill_given
                       THEN fill_given[ExpectedKey(attr)]
                       ELSE NoneV)

====
